---- MODULE Spec2Model ----
(***************************************************************************)
(* Price Scanner: the page script (BarcodeWebApp/app.js) and the service   *)
(* worker (service-worker.js).  The two components share nothing, so each  *)
(* has its own specification: Spec (the page) and SpecSW (the worker).     *)
(*                                                                         *)
(* JavaScript strings are tuples of one-character strings, so that         *)
(* parseFloat, toFixed and the property order of objects are computed and  *)
(* not assumed.  Numbers are records: a finite number is held in           *)
(* hundredths, [k |-> "num", v |-> 399] is 3.99.                           *)
(***************************************************************************)
EXTENDS Integers, Sequences, FiniteSets, TLC

VARIABLES
  \* ---- the page (app.js)
  pagePhase,      \* "loading" before DOMContentLoaded has been handled, then "ready"
  listenersBound, \* the click listeners of lines 114-115 are bound
  swScheduled,    \* the window 'load' listener that registers the worker is added
  storage,        \* localStorage entry 'prices'
  currentCode,    \* let currentCode (line 20)
  formHidden,     \* priceEntry has class 'hidden'
  scannedCode,    \* scannedCodeSpan.textContent
  priceInput,     \* priceInput.value
  pricesList,     \* the <li> items of pricesList, in order
  running,        \* the decoder is started (Quagga.start) and not stopped
  pendingInits,   \* Quagga.init calls whose callback has not run yet
  subscribers,    \* subscriptions of onDetected to the detection event
  notice,         \* the alert shown by the last step, if any
  pageError,      \* the exception the last handler left uncaught, if any
  lastOp,         \* history: what the last step was
  ledger,         \* history: code -> price of the last completed save
  scanIdle,       \* history: a code was detected and the scan trigger not clicked since
  \* ---- the worker (service-worker.js)
  swState,        \* lifecycle state of this worker version
  caches,         \* CacheStorage: the stores in creation order
  addAllDone,     \* install: the listed paths cache.addAll has fetched so far
  toDelete,       \* activate: the names whose deletion is still outstanding
  response,       \* what the last fetch event was answered with
  netFetch,       \* the last step issued a live network fetch
  swOp,           \* history: what the last worker step was
  atInstall,      \* history: contents of the current store when install began
  atActivate,     \* history: CacheStorage when activate began
  \* ---- two page contexts that share localStorage
  tabs,           \* per context: where its save handler is, and its local data
  tabHist         \* history: the completed saves, and whether two saves overlapped

pageVars == <<pagePhase, listenersBound, swScheduled, storage, currentCode, formHidden,
              scannedCode, priceInput, pricesList, running, pendingInits, subscribers,
              notice, pageError, lastOp, ledger, scanIdle>>
swVars == <<swState, caches, addAllDone, toDelete, response, netFetch, swOp,
            atInstall, atActivate>>
tabVars == <<tabs, tabHist>>
vars == <<pageVars, swVars, tabVars>>

----------------------------------------------------------------------------
\* Bounds of the model

\* Quagga.init calls that may be awaiting their callback at once
MaxPendingInits == 2
\* subscriptions of onDetected that may be held at once
MaxSubscribers == 2

----------------------------------------------------------------------------
\* JavaScript values

\* null / undefined
Null == <<"null">>
\* the empty string
Empty == <<>>

DigitChars == <<"0", "1", "2", "3", "4", "5", "6", "7", "8", "9">>
IsDigit(ch) == \E d \in 1..10 : DigitChars[d] = ch
DigitVal(ch) == (CHOOSE d \in 1..10 : DigitChars[d] = ch) - 1

\* the value of a run of decimal digits
RECURSIVE DecVal(_)
DecVal(s) == IF s = <<>> THEN 0 ELSE DecVal(SubSeq(s, 1, Len(s) - 1)) * 10 + DigitVal(s[Len(s)])

\* the decimal digits of a natural number
RECURSIVE DecStr(_)
DecStr(n) == IF n < 10 THEN <<DigitChars[n + 1]>> ELSE DecStr(n \div 10) \o <<DigitChars[(n % 10) + 1]>>

\* the longest prefix of s made of digits
RECURSIVE DigitPrefix(_)
DigitPrefix(s) ==
  IF s # <<>> /\ IsDigit(Head(s)) THEN <<Head(s)>> \o DigitPrefix(Tail(s)) ELSE <<>>

RECURSIVE TrimLeft(_)
TrimLeft(s) == IF s # <<>> /\ Head(s) = " " THEN TrimLeft(Tail(s)) ELSE s

StartsWith(s, p) == Len(s) >= Len(p) /\ SubSeq(s, 1, Len(p)) = p

NaN == [k |-> "NaN", v |-> 0]
Num(c) == [k |-> "num", v |-> c]
Infinity(sign) == [k |-> "Infinity", v |-> sign]
JNull == [k |-> "null", v |-> 0]

\* hundredths denoted by the fraction digits f (the strings of the model carry at
\* most two)
FracHundredths(f) ==
  IF f = <<>> THEN 0
  ELSE IF Len(f) = 1 THEN DigitVal(f[1]) * 10
  ELSE DigitVal(f[1]) * 10 + DigitVal(f[2])

\* parseFloat: leading white space is skipped, then the longest prefix that is a
\* decimal literal is converted; NaN when there is none.  Trailing text is ignored.
ParseFloat(s) ==
  LET t == TrimLeft(s)
      neg == t # <<>> /\ Head(t) = "-"
      signed == t # <<>> /\ Head(t) \in {"-", "+"}
      u == IF signed THEN Tail(t) ELSE t
      int == DigitPrefix(u)
      rest == SubSeq(u, Len(int) + 1, Len(u))
      frac == IF rest # <<>> /\ Head(rest) = "." THEN DigitPrefix(Tail(rest)) ELSE <<>>
      mag == DecVal(int) * 100 + FracHundredths(frac)
  IN IF StartsWith(u, <<"I", "n", "f", "i", "n", "i", "t", "y">>)
       THEN Infinity(IF neg THEN -1 ELSE 1)
     ELSE IF int = <<>> /\ frac = <<>> THEN NaN
     ELSE Num(IF neg THEN -mag ELSE mag)

IsNaN(n) == n.k = "NaN"

\* Number.prototype.toFixed(2) of a finite number
ToFixed2(n) ==
  LET mag == IF n.v < 0 THEN -n.v ELSE n.v
      cents == mag % 100
  IN (IF n.v < 0 THEN <<"-">> ELSE <<>>) \o DecStr(mag \div 100) \o <<".">>
       \o <<DigitChars[(cents \div 10) + 1], DigitChars[(cents % 10) + 1]>>

----------------------------------------------------------------------------
\* JavaScript objects: the own properties in OrdinaryOwnPropertyKeys order, which
\* is array-index keys in ascending numeric order, then the other string keys in
\* insertion order.

\* the digits of 2^32 - 1
ArrayIndexLimit == <<"4", "2", "9", "4", "9", "6", "7", "2", "9", "5">>

\* a < b for two digit strings of the same length
DigitsLess(a, b) ==
  \E i \in 1..Len(a) :
    /\ SubSeq(a, 1, i - 1) = SubSeq(b, 1, i - 1)
    /\ DigitVal(a[i]) < DigitVal(b[i])

\* a canonical array index: decimal digits without a leading zero, below 2^32 - 1
IsArrayIndex(key) ==
  /\ key # <<>>
  /\ \A i \in 1..Len(key) : IsDigit(key[i])
  /\ (Len(key) = 1 \/ key[1] # "0")
  /\ \/ Len(key) < Len(ArrayIndexLimit)
     \/ Len(key) = Len(ArrayIndexLimit) /\ DigitsLess(key, ArrayIndexLimit)

EmptyObject == <<>>
HasProp(obj, key) == \E i \in 1..Len(obj) : obj[i].key = key
GetProp(obj, key) == obj[CHOOSE i \in 1..Len(obj) : obj[i].key = key].val
ObjectKeys(obj) == [i \in 1..Len(obj) |-> obj[i].key]

\* the position a new key takes among the properties of obj
InsertAt(obj, key) ==
  IF IsArrayIndex(key)
    THEN 1 + Cardinality({i \in 1..Len(obj) :
                            /\ IsArrayIndex(obj[i].key)
                            /\ \/ Len(obj[i].key) < Len(key)
                               \/ Len(obj[i].key) = Len(key) /\ DigitsLess(obj[i].key, key)})
    ELSE Len(obj) + 1

\* a mutant of SetProp: an existing property keeps its value
SetPropKeepFirst(obj, key, val) ==
  IF HasProp(obj, key) THEN obj
  ELSE LET p == InsertAt(obj, key)
       IN SubSeq(obj, 1, p - 1) \o <<[key |-> key, val |-> val]>> \o SubSeq(obj, p, Len(obj))

\* obj[key] = val
SetProp(obj, key, val) ==
  IF HasProp(obj, key)
    THEN [i \in 1..Len(obj) |-> IF obj[i].key = key THEN [key |-> key, val |-> val] ELSE obj[i]]
    ELSE LET p == InsertAt(obj, key)
         IN SubSeq(obj, 1, p - 1) \o <<[key |-> key, val |-> val]>> \o SubSeq(obj, p, Len(obj))

----------------------------------------------------------------------------
\* localStorage and JSON.  An item is absent, the empty string, text that is not
\* JSON ("garbage"), or the JSON text of an object, held as its members in text
\* order.

Absent == [kind |-> "absent", members |-> <<>>]
EmptyString == [kind |-> "empty", members |-> <<>>]
Garbage == [kind |-> "garbage", members |-> <<>>]
JsonText(members) == [kind |-> "json", members |-> members]

\* localStorage.getItem('prices') || '{}'
ItemOrDefault(item) == IF item.kind \in {"absent", "empty"} THEN JsonText(<<>>) ELSE item

\* JSON.parse throws a SyntaxError on text that is not JSON
ParseThrows(text) == text.kind # "json"

\* JSON.parse of an object: the members are defined in text order (a repeated
\* key keeps its last value)
RECURSIVE BuildObject(_, _)
BuildObject(obj, members) ==
  IF members = <<>> THEN obj
  ELSE BuildObject(SetProp(obj, Head(members).key, Head(members).val), Tail(members))

JSONparse(text) == BuildObject(EmptyObject, text.members)

\* JSON.stringify of an object of numbers: a number that is not finite is
\* written as null
JSONstringify(obj) ==
  JsonText([i \in 1..Len(obj) |->
              [key |-> obj[i].key,
               val |-> IF obj[i].val.k = "num" THEN obj[i].val ELSE JNull]])

----------------------------------------------------------------------------
\* The page: loadPrices

ListItem(code, val) == [code |-> code, price |-> <<"$">> \o ToFixed2(val)]

RECURSIVE RenderItems(_)
\* the items appended by the forEach of lines 28-38, which stops at the first
\* value that has no toFixed (null.toFixed(2) throws a TypeError)
RenderItems(obj) ==
  IF obj = <<>> \/ Head(obj).val.k # "num" THEN <<>>
  ELSE <<ListItem(Head(obj).key, Head(obj).val)>> \o RenderItems(Tail(obj))

\* the exception loadPrices ends with, "none" when it returns
LoadPricesError(item) ==
  IF ParseThrows(ItemOrDefault(item)) THEN "SyntaxError"
  ELSE IF \E i \in 1..Len(JSONparse(ItemOrDefault(item))) :
            JSONparse(ItemOrDefault(item))[i].val.k # "num" THEN "TypeError"
  ELSE "none"

\* a mutant of LoadPricesList: the list is not cleared before it is filled
LoadPricesListAppend(item, shown) ==
  IF ParseThrows(ItemOrDefault(item)) THEN shown
  ELSE shown \o RenderItems(JSONparse(ItemOrDefault(item)))

\* the displayed list loadPrices leaves: untouched when JSON.parse throws (line 26
\* precedes the clearing of line 27), else cleared and refilled
LoadPricesList(item, shown) ==
  IF ParseThrows(ItemOrDefault(item)) THEN shown
  ELSE RenderItems(JSONparse(ItemOrDefault(item)))

----------------------------------------------------------------------------
\* Inputs of the page

Code012 == <<"0", "1", "2">>
Code7 == <<"7">>
Codes == {Code012, Code7}

\* what a detection event carries: no codeResult, or a codeResult with a code
DetectionResults ==
  {[hasCodeResult |-> FALSE, code |-> Empty]}
    \cup {[hasCodeResult |-> TRUE, code |-> c] : c \in Codes \cup {Empty}}

\* result && result.codeResult && result.codeResult.code
CodeOf(result) == IF result.hasCodeResult THEN result.code ELSE Null

\* !code
Falsy(code) == code = Null \/ code = Empty

\* what the user may have typed in the price field
PriceInputs ==
  { <<"a", "b", "c">>,
    <<"3", ".", "9", "9">>,
    <<"-", "1">>,
    <<"I", "n", "f", "i", "n", "i", "t", "y">> }

\* what localStorage may hold when the page is first opened
InitialStorage ==
  { Absent, EmptyString, Garbage,
    JsonText(<<[key |-> Code012, val |-> Num(100)]>>) }

NoPrice == [k |-> "absent", v |-> 0]

\* the price the persisted mapping holds for a code, as a load reads it
StoredPrice(item, code) ==
  IF ParseThrows(ItemOrDefault(item)) \/ ~HasProp(JSONparse(ItemOrDefault(item)), code)
    THEN NoPrice
    ELSE GetProp(JSONparse(ItemOrDefault(item)), code)

----------------------------------------------------------------------------
\* The page: state after the document is parsed, before DOMContentLoaded.  The
\* markup is not part of the sources; the form starts hidden (onDetected is what
\* shows it), the list and the price field start empty.

PageReset ==
  /\ pagePhase = "loading"
  /\ listenersBound = FALSE
  /\ swScheduled = FALSE
  /\ currentCode = Null
  /\ formHidden = TRUE
  /\ scannedCode = Empty
  /\ priceInput = Empty
  /\ pricesList = <<>>
  /\ running = FALSE
  /\ pendingInits = 0
  /\ subscribers = 0
  /\ notice = "none"
  /\ pageError = "none"
  /\ lastOp = "none"
  /\ scanIdle = FALSE

SWIdle ==
  /\ swState = "parsed"
  /\ caches = <<>>
  /\ addAllDone = {}
  /\ toDelete = {}
  /\ response = [source |-> "none", cache |-> "none", url |-> "none"]
  /\ netFetch = FALSE
  /\ swOp = "none"
  /\ atInstall = {}
  /\ atActivate = <<>>

\* the page contexts of the two-context specification
Tabs == {"tabA", "tabB"}

TabIdle == [pc |-> "idle", code |-> Null, price |-> NaN, data |-> EmptyObject]

TabsIdle ==
  /\ tabs = [t \in Tabs |-> TabIdle]
  /\ tabHist = [overlap |-> FALSE, saved |-> [c \in Codes |-> NoPrice]]

Init ==
  /\ PageReset
  /\ storage \in InitialStorage
  /\ ledger = [ok |-> storage.kind # "garbage",
               price |-> [c \in Codes |->
                            IF \E i \in 1..Len(storage.members) : storage.members[i].key = c
                              THEN storage.members[CHOOSE i \in 1..Len(storage.members) :
                                                     storage.members[i].key = c].val
                              ELSE NoPrice],
               prev |-> NoPrice]
  /\ SWIdle
  /\ TabsIdle

----------------------------------------------------------------------------
\* The page: handlers

\* document.addEventListener('DOMContentLoaded', ...): binds the click listeners,
\* calls loadPrices and, when that returns and the browser has service workers,
\* schedules the registration.  An exception of loadPrices ends the handler.
DOMContentLoaded ==
  /\ pagePhase = "loading"
  /\ pagePhase' = "ready"
  /\ listenersBound' = TRUE
  /\ pricesList' = LoadPricesList(storage, pricesList)
  /\ pageError' = LoadPricesError(storage)
  /\ \E supported \in BOOLEAN :
       swScheduled' = (LoadPricesError(storage) = "none" /\ supported)
  /\ lastOp' = "startup"
  /\ notice' = "none"
  /\ ledger' = [ledger EXCEPT !.prev = NoPrice]
  /\ UNCHANGED <<storage, currentCode, formHidden, scannedCode, priceInput, running,
                 pendingInits, subscribers, scanIdle>>
  /\ UNCHANGED <<swVars, tabVars>>

\* startScanner (click on start-scan): hides the form, calls Quagga.init, whose
\* callback runs later, and subscribes onDetected
StartScanner ==
  /\ listenersBound
  /\ pendingInits < MaxPendingInits
  /\ subscribers < MaxSubscribers
  /\ formHidden' = TRUE
  /\ pendingInits' = pendingInits + 1
  /\ subscribers' = subscribers + 1
  /\ scanIdle' = FALSE
  /\ lastOp' = "scan"
  /\ notice' = "none"
  /\ pageError' = "none"
  /\ ledger' = [ledger EXCEPT !.prev = NoPrice]
  /\ UNCHANGED <<pagePhase, listenersBound, swScheduled, storage, currentCode,
                 scannedCode, priceInput, pricesList, running>>
  /\ UNCHANGED <<swVars, tabVars>>

\* a mutant of InitCallback: the return of line 84 is missing, so the decoder is
\* started after the alert
InitCallbackNoReturn(err) ==
  /\ pendingInits > 0
  /\ pendingInits' = pendingInits - 1
  /\ notice' = IF err THEN "Unable to start barcode scanner" ELSE "none"
  /\ running' = TRUE
  /\ lastOp' = IF err THEN "initFailed" ELSE "initDone"
  /\ pageError' = "none"
  /\ ledger' = [ledger EXCEPT !.prev = NoPrice]
  /\ UNCHANGED <<pagePhase, listenersBound, swScheduled, storage, currentCode, formHidden,
                 scannedCode, priceInput, pricesList, subscribers, scanIdle>>
  /\ UNCHANGED <<swVars, tabVars>>

\* the callback of Quagga.init (lines 80-87), with an error or without
InitCallback(err) ==
  /\ pendingInits > 0
  /\ pendingInits' = pendingInits - 1
  /\ IF err
       THEN /\ notice' = "Unable to start barcode scanner"
            /\ running' = running
            /\ lastOp' = "initFailed"
       ELSE /\ notice' = "none"
            /\ running' = TRUE
            /\ lastOp' = "initDone"
  /\ pageError' = "none"
  /\ ledger' = [ledger EXCEPT !.prev = NoPrice]
  /\ UNCHANGED <<pagePhase, listenersBound, swScheduled, storage, currentCode, formHidden,
                 scannedCode, priceInput, pricesList, subscribers, scanIdle>>
  /\ UNCHANGED <<swVars, tabVars>>

\* onDetected: the running decoder publishes a detection to the subscribed handler
OnDetected(result) ==
  /\ running
  /\ subscribers > 0
  /\ IF Falsy(CodeOf(result))
       THEN /\ lastOp' = "detectIgnored"
            /\ UNCHANGED <<subscribers, running, currentCode, scannedCode, priceInput,
                           formHidden, scanIdle>>
       ELSE /\ subscribers' = 0
            /\ running' = FALSE
            /\ currentCode' = CodeOf(result)
            /\ scannedCode' = CodeOf(result)
            /\ priceInput' = Empty
            /\ formHidden' = FALSE
            /\ scanIdle' = TRUE
            /\ lastOp' = "detected"
  /\ notice' = "none"
  /\ pageError' = "none"
  /\ ledger' = [ledger EXCEPT !.prev = NoPrice]
  /\ UNCHANGED <<pagePhase, listenersBound, swScheduled, storage, pricesList, pendingInits>>
  /\ UNCHANGED <<swVars, tabVars>>

\* the user types into the price field of the visible form
TypePrice(text) ==
  /\ pagePhase = "ready"
  /\ ~formHidden
  /\ priceInput' = text
  /\ lastOp' = "typed"
  /\ notice' = "none"
  /\ pageError' = "none"
  /\ ledger' = [ledger EXCEPT !.prev = NoPrice]
  /\ UNCHANGED <<pagePhase, listenersBound, swScheduled, storage, currentCode, formHidden,
                 scannedCode, pricesList, running, pendingInits, subscribers, scanIdle>>
  /\ UNCHANGED <<swVars, tabVars>>

\* the object the save handler writes back (lines 121-122)
SaveData == SetProp(JSONparse(ItemOrDefault(storage)), currentCode, ParseFloat(priceInput))

\* the save handler returns early (line 117)
SaveRejected == Falsy(currentCode) \/ IsNaN(ParseFloat(priceInput))

\* a mutant of SavePriceClick: the guard of line 117 tests the code only
SavePriceClickNoNaNCheck ==
  /\ listenersBound
  /\ IF Falsy(currentCode)
       THEN /\ lastOp' = "saveIgnored"
            /\ pageError' = "none"
            /\ ledger' = [ledger EXCEPT !.prev = NoPrice]
            /\ UNCHANGED <<storage, pricesList, formHidden, currentCode>>
       ELSE /\ ~ParseThrows(ItemOrDefault(storage))
            /\ storage' = JSONstringify(SaveData)
            /\ pricesList' = LoadPricesList(storage', pricesList)
            /\ pageError' = "none"
            /\ formHidden' = TRUE
            /\ currentCode' = Null
            /\ lastOp' = "saved"
            /\ ledger' = ledger
  /\ notice' = "none"
  /\ UNCHANGED <<pagePhase, listenersBound, swScheduled, scannedCode, priceInput, running,
                 pendingInits, subscribers, scanIdle>>
  /\ UNCHANGED <<swVars, tabVars>>

\* a mutant of SavePriceClick: currentCode is not reset after the save
SavePriceClickKeepCode ==
  /\ listenersBound
  /\ IF SaveRejected
       THEN /\ lastOp' = "saveIgnored"
            /\ pageError' = "none"
            /\ ledger' = [ledger EXCEPT !.prev = NoPrice]
            /\ UNCHANGED <<storage, pricesList, formHidden, currentCode>>
       ELSE /\ ~ParseThrows(ItemOrDefault(storage))
            /\ LoadPricesError(JSONstringify(SaveData)) = "none"
            /\ storage' = JSONstringify(SaveData)
            /\ pricesList' = LoadPricesList(storage', pricesList)
            /\ pageError' = "none"
            /\ formHidden' = TRUE
            /\ currentCode' = currentCode
            /\ lastOp' = "saved"
            /\ ledger' = [ledger EXCEPT !.price[currentCode] = ParseFloat(priceInput),
                                        !.prev = StoredPrice(storage, currentCode)]
  /\ notice' = "none"
  /\ UNCHANGED <<pagePhase, listenersBound, swScheduled, scannedCode, priceInput, running,
                 pendingInits, subscribers, scanIdle>>
  /\ UNCHANGED <<swVars, tabVars>>

\* the click handler of save-price (lines 115-128).  JSON.parse of line 121 may
\* throw, before anything is written; loadPrices of line 124 may throw, after the
\* write and before the form is hidden and currentCode reset.
SavePriceClick ==
  /\ listenersBound
  /\ IF SaveRejected
       THEN /\ lastOp' = "saveIgnored"
            /\ pageError' = "none"
            /\ ledger' = [ledger EXCEPT !.prev = NoPrice]
            /\ UNCHANGED <<storage, pricesList, formHidden, currentCode>>
     ELSE IF ParseThrows(ItemOrDefault(storage))
       THEN /\ lastOp' = "saveThrew"
            /\ pageError' = "SyntaxError"
            /\ ledger' = [ledger EXCEPT !.prev = NoPrice]
            /\ UNCHANGED <<storage, pricesList, formHidden, currentCode>>
     ELSE /\ storage' = JSONstringify(SaveData)
          /\ pricesList' = LoadPricesList(storage', pricesList)
          /\ pageError' = LoadPricesError(storage')
          /\ IF LoadPricesError(storage') = "none"
               THEN /\ formHidden' = TRUE
                    /\ currentCode' = Null
                    /\ lastOp' = "saved"
                    /\ ledger' = [ledger EXCEPT
                                    !.price[currentCode] = ParseFloat(priceInput),
                                    !.prev = StoredPrice(storage, currentCode)]
               ELSE /\ UNCHANGED <<formHidden, currentCode>>
                    /\ lastOp' = "saveThrewAfterWrite"
                    /\ ledger' = [ledger EXCEPT !.ok = FALSE, !.prev = NoPrice]
  /\ notice' = "none"
  /\ UNCHANGED <<pagePhase, listenersBound, swScheduled, scannedCode, priceInput, running,
                 pendingInits, subscribers, scanIdle>>
  /\ UNCHANGED <<swVars, tabVars>>

\* the document is loaded anew: the script state is gone, localStorage stays
Reload ==
  /\ pagePhase = "ready"
  /\ pagePhase' = "loading"
  /\ listenersBound' = FALSE
  /\ swScheduled' = FALSE
  /\ currentCode' = Null
  /\ formHidden' = TRUE
  /\ scannedCode' = Empty
  /\ priceInput' = Empty
  /\ pricesList' = <<>>
  /\ running' = FALSE
  /\ pendingInits' = 0
  /\ subscribers' = 0
  /\ notice' = "none"
  /\ pageError' = "none"
  /\ lastOp' = "none"
  /\ scanIdle' = FALSE
  /\ ledger' = [ledger EXCEPT !.prev = NoPrice]
  /\ UNCHANGED storage
  /\ UNCHANGED <<swVars, tabVars>>

Next ==
  \/ DOMContentLoaded
  \/ StartScanner
  \/ \E err \in BOOLEAN : InitCallback(err)
  \/ \E result \in DetectionResults : OnDetected(result)
  \/ \E text \in PriceInputs : TypePrice(text)
  \/ SavePriceClick
  \/ Reload

Spec == Init /\ [][Next]_vars

----------------------------------------------------------------------------
\* The service worker

CACHE_NAME == "price-scanner-cache-v1"
URLS_TO_CACHE ==
  {"/", "/index.html", "/styles.css", "/app.js", "/manifest.json", "/logo-192.png",
   "/logo-512.png"}

\* a store left by an earlier version, and one of another name
StaleName == "price-scanner-cache-v0"
OtherName == "other-cache"

\* the requests the page may make: the listed paths and two that are not listed
Requests == URLS_TO_CACHE \cup {"/old.js", "/api/prices"}

Store(name, urls) == [name |-> name, urls |-> urls]

\* what CacheStorage may hold when this version is installed: nothing, stores of
\* earlier versions, or a store of the same name left by an earlier install
InitialCaches ==
  { <<>>,
    <<Store(StaleName, {"/", "/index.html", "/old.js"})>>,
    <<Store(StaleName, {"/", "/old.js"}), Store(OtherName, {"/api/prices"})>>,
    <<Store(CACHE_NAME, {})>>,
    <<Store(CACHE_NAME, URLS_TO_CACHE), Store(StaleName, {"/old.js"})>> }

\* caches.keys()
CacheNames(cs) == {cs[i].name : i \in 1..Len(cs)}

HasStore(cs, name) == name \in CacheNames(cs)

\* the requests stored in the store of a name, none when there is no such store
StoreUrls(cs, name) ==
  IF HasStore(cs, name) THEN cs[CHOOSE i \in 1..Len(cs) : cs[i].name = name].urls ELSE {}

\* caches.open(name): the store is created, last, when there is none
CachesOpen(cs, name) == IF HasStore(cs, name) THEN cs ELSE Append(cs, Store(name, {}))

\* the store of a name with urls put into it
CachePutAll(cs, name, urls) ==
  [i \in 1..Len(cs) |-> IF cs[i].name = name THEN Store(name, cs[i].urls \cup urls) ELSE cs[i]]

\* caches.delete(name)
RECURSIVE CachesDelete(_, _)
CachesDelete(cs, name) ==
  IF cs = <<>> THEN <<>>
  ELSE IF Head(cs).name = name THEN CachesDelete(Tail(cs), name)
  ELSE <<Head(cs)>> \o CachesDelete(Tail(cs), name)

\* a mutant of CachesMatch: the store created last is searched first
CachesMatchLast(cs, url) ==
  IF {i \in 1..Len(cs) : url \in cs[i].urls} = {}
    THEN [source |-> "none", cache |-> "none", url |-> url]
    ELSE [source |-> "cache",
          cache |-> cs[CHOOSE i \in {k \in 1..Len(cs) : url \in cs[k].urls} :
                         \A j \in {k \in 1..Len(cs) : url \in cs[k].urls} : i >= j].name,
          url |-> url]

\* caches.match(request): the first store, in creation order, that holds it
MatchingStores(cs, url) == {i \in 1..Len(cs) : url \in cs[i].urls}
CachesMatch(cs, url) ==
  IF MatchingStores(cs, url) = {}
    THEN [source |-> "none", cache |-> "none", url |-> url]
    ELSE [source |-> "cache",
          cache |-> cs[CHOOSE i \in MatchingStores(cs, url) :
                         \A j \in MatchingStores(cs, url) : i <= j].name,
          url |-> url]

\* the install listener up to caches.open (lines 22-24)
InstallEvent ==
  /\ swState = "parsed"
  /\ swState' = "installing"
  /\ caches' = CachesOpen(caches, CACHE_NAME)
  /\ atInstall' = StoreUrls(caches, CACHE_NAME)
  /\ addAllDone' = {}
  /\ netFetch' = FALSE
  /\ swOp' = "install"
  /\ UNCHANGED <<toDelete, response, atActivate>>
  /\ UNCHANGED <<pageVars, tabVars>>

\* a mutant of AddAllFetch: each response is put into the store as it arrives
AddAllFetchPutsAtOnce(url, ok) ==
  /\ swState = "installing"
  /\ url \in URLS_TO_CACHE \ addAllDone
  /\ netFetch' = TRUE
  /\ IF ok
       THEN /\ addAllDone' = addAllDone \cup {url}
            /\ caches' = CachePutAll(caches, CACHE_NAME, {url})
            /\ swOp' = "addAllFetched"
            /\ UNCHANGED swState
       ELSE /\ swState' = "redundant"
            /\ swOp' = "addAllFailed"
            /\ UNCHANGED <<addAllDone, caches>>
  /\ UNCHANGED <<toDelete, response, atInstall, atActivate>>
  /\ UNCHANGED <<pageVars, tabVars>>

\* cache.addAll(URLS_TO_CACHE) fetches one listed path (line 25).  A failed fetch
\* rejects addAll and with it the promise given to waitUntil: the install fails
\* and the worker is discarded.  Nothing is stored before every fetch has succeeded.
AddAllFetch(url, ok) ==
  /\ swState = "installing"
  /\ url \in URLS_TO_CACHE \ addAllDone
  /\ netFetch' = TRUE
  /\ IF ok
       THEN /\ addAllDone' = addAllDone \cup {url}
            /\ swOp' = "addAllFetched"
            /\ UNCHANGED swState
       ELSE /\ swState' = "redundant"
            /\ swOp' = "addAllFailed"
            /\ UNCHANGED addAllDone
  /\ UNCHANGED <<caches, toDelete, response, atInstall, atActivate>>
  /\ UNCHANGED <<pageVars, tabVars>>

\* a mutant of AddAllCommit: the root path is not stored
AddAllCommitWithoutRoot ==
  /\ swState = "installing"
  /\ addAllDone = URLS_TO_CACHE
  /\ caches' = CachePutAll(caches, CACHE_NAME, URLS_TO_CACHE \ {"/"})
  /\ swState' = "installed"
  /\ netFetch' = FALSE
  /\ swOp' = "installed"
  /\ UNCHANGED <<addAllDone, toDelete, response, atInstall, atActivate>>
  /\ UNCHANGED <<pageVars, tabVars>>

\* cache.addAll resolves: every listed path has been fetched and all responses
\* are stored together; the promise given to waitUntil is fulfilled (lines 23-27)
AddAllCommit ==
  /\ swState = "installing"
  /\ addAllDone = URLS_TO_CACHE
  /\ caches' = CachePutAll(caches, CACHE_NAME, URLS_TO_CACHE)
  /\ swState' = "installed"
  /\ netFetch' = FALSE
  /\ swOp' = "installed"
  /\ UNCHANGED <<addAllDone, toDelete, response, atInstall, atActivate>>
  /\ UNCHANGED <<pageVars, tabVars>>

\* a mutant of ActivateEvent: no store is deleted
ActivateEventKeepsStale ==
  /\ swState = "installed"
  /\ swState' = "activating"
  /\ atActivate' = caches
  /\ toDelete' = {}
  /\ netFetch' = FALSE
  /\ swOp' = "activate"
  /\ UNCHANGED <<caches, addAllDone, response, atInstall>>
  /\ UNCHANGED <<pageVars, tabVars>>

\* a mutant of ActivateEvent: every store is deleted, the current one too
ActivateEventDeletesAll ==
  /\ swState = "installed"
  /\ swState' = "activating"
  /\ atActivate' = caches
  /\ toDelete' = CacheNames(caches)
  /\ netFetch' = FALSE
  /\ swOp' = "activate"
  /\ UNCHANGED <<caches, addAllDone, response, atInstall>>
  /\ UNCHANGED <<pageVars, tabVars>>

\* the activate listener up to caches.keys() (lines 30-36): the names that differ
\* from CACHE_NAME are to be deleted
ActivateEvent ==
  /\ swState = "installed"
  /\ swState' = "activating"
  /\ atActivate' = caches
  /\ toDelete' = {n \in CacheNames(caches) : n # CACHE_NAME}
  /\ netFetch' = FALSE
  /\ swOp' = "activate"
  /\ UNCHANGED <<caches, addAllDone, response, atInstall>>
  /\ UNCHANGED <<pageVars, tabVars>>

\* caches.delete(cacheName) of line 37, for one of the names
ActivateDelete(name) ==
  /\ swState = "activating"
  /\ name \in toDelete
  /\ caches' = CachesDelete(caches, name)
  /\ toDelete' = toDelete \ {name}
  /\ netFetch' = FALSE
  /\ swOp' = "delete"
  /\ UNCHANGED <<swState, addAllDone, response, atInstall, atActivate>>
  /\ UNCHANGED <<pageVars, tabVars>>

\* a mutant of ActivateDone: the deletions are not given to waitUntil, so the
\* activation completes while they are outstanding
ActivateDoneEarly ==
  /\ swState = "activating"
  /\ swState' = "activated"
  /\ netFetch' = FALSE
  /\ swOp' = "activated"
  /\ UNCHANGED <<caches, addAllDone, toDelete, response, atInstall, atActivate>>
  /\ UNCHANGED <<pageVars, tabVars>>

\* Promise.all of line 34 resolves and with it the promise given to waitUntil
ActivateDone ==
  /\ swState = "activating"
  /\ toDelete = {}
  /\ swState' = "activated"
  /\ netFetch' = FALSE
  /\ swOp' = "activated"
  /\ UNCHANGED <<caches, addAllDone, toDelete, response, atInstall, atActivate>>
  /\ UNCHANGED <<pageVars, tabVars>>

\* a mutant of FetchEvent: a response fetched from the network is put into the
\* current store
FetchEventPopulates(url, netOk) ==
  /\ swState = "activated"
  /\ swOp' = "fetch"
  /\ IF CachesMatch(caches, url).source = "cache"
       THEN /\ response' = CachesMatch(caches, url)
            /\ netFetch' = FALSE
            /\ UNCHANGED caches
       ELSE /\ response' = [source |-> IF netOk THEN "network" ELSE "networkError",
                            cache |-> "none", url |-> url]
            /\ netFetch' = TRUE
            /\ caches' = IF netOk THEN CachePutAll(caches, CACHE_NAME, {url}) ELSE caches
  /\ UNCHANGED <<swState, addAllDone, toDelete, atInstall, atActivate>>
  /\ UNCHANGED <<pageVars, tabVars>>

\* the fetch listener (lines 45-51): the match of caches.match, else the result
\* of fetch(event.request), which is a response or a network error
FetchEvent(url, netOk) ==
  /\ swState = "activated"
  /\ swOp' = "fetch"
  /\ IF CachesMatch(caches, url).source = "cache"
       THEN /\ response' = CachesMatch(caches, url)
            /\ netFetch' = FALSE
       ELSE /\ response' = [source |-> IF netOk THEN "network" ELSE "networkError",
                            cache |-> "none", url |-> url]
            /\ netFetch' = TRUE
  /\ UNCHANGED <<swState, caches, addAllDone, toDelete, atInstall, atActivate>>
  /\ UNCHANGED <<pageVars, tabVars>>

InitSW ==
  /\ PageReset
  /\ storage = Absent
  /\ ledger = [ok |-> TRUE, price |-> [c \in Codes |-> NoPrice], prev |-> NoPrice]
  /\ swState = "parsed"
  /\ caches \in InitialCaches
  /\ addAllDone = {}
  /\ toDelete = {}
  /\ response = [source |-> "none", cache |-> "none", url |-> "none"]
  /\ netFetch = FALSE
  /\ swOp = "none"
  /\ atInstall = {}
  /\ atActivate = <<>>
  /\ TabsIdle

NextSW ==
  \/ InstallEvent
  \/ \E url \in URLS_TO_CACHE, ok \in BOOLEAN : AddAllFetch(url, ok)
  \/ AddAllCommit
  \/ ActivateEvent
  \/ \E name \in {StaleName, OtherName, CACHE_NAME} : ActivateDelete(name)
  \/ ActivateDone
  \/ \E url \in Requests, netOk \in BOOLEAN : FetchEvent(url, netOk)

SpecSW == InitSW /\ [][NextSW]_vars

----------------------------------------------------------------------------
\* Successive generations.  The version before this one (its store is StaleName)
\* and the version after it (the same listeners with CACHE_NAME set to NextName)
\* act on the same CacheStorage.

NextName == "price-scanner-cache-v2"

\* the fetch listener (lines 45-51) of the previous version, which is the active
\* worker until this version is activated, and stays so when its install fails.
\* There is a previous version of generation StaleName when its store is the
\* oldest one.
PreviousVersionFetch(url, netOk) ==
  /\ caches # <<>>
  /\ Head(caches).name = StaleName
  /\ swState \in {"parsed", "installing", "installed", "redundant"}
  /\ swOp' = "fetchByPrevious"
  /\ IF CachesMatch(caches, url).source = "cache"
       THEN /\ response' = CachesMatch(caches, url)
            /\ netFetch' = FALSE
       ELSE /\ response' = [source |-> IF netOk THEN "network" ELSE "networkError",
                            cache |-> "none", url |-> url]
            /\ netFetch' = TRUE
  /\ UNCHANGED <<swState, caches, addAllDone, toDelete, atInstall, atActivate>>
  /\ UNCHANGED <<pageVars, tabVars>>

\* the install listener of the next version up to caches.open (lines 22-24); it
\* is installed while this version is the active one
NextVersionOpen ==
  /\ swState = "activated"
  /\ ~HasStore(caches, NextName)
  /\ caches' = CachesOpen(caches, NextName)
  /\ swOp' = "nextInstall"
  /\ netFetch' = FALSE
  /\ UNCHANGED <<swState, addAllDone, toDelete, response, atInstall, atActivate>>
  /\ UNCHANGED <<pageVars, tabVars>>

\* cache.addAll of the next version resolves (lines 24-27)
NextVersionAddAll ==
  /\ swState = "activated"
  /\ HasStore(caches, NextName)
  /\ StoreUrls(caches, NextName) = {}
  /\ caches' = CachePutAll(caches, NextName, URLS_TO_CACHE)
  /\ swOp' = "nextInstalled"
  /\ netFetch' = TRUE
  /\ UNCHANGED <<swState, addAllDone, toDelete, response, atInstall, atActivate>>
  /\ UNCHANGED <<pageVars, tabVars>>

NextGen ==
  \/ NextSW
  \/ \E url \in Requests, netOk \in BOOLEAN : PreviousVersionFetch(url, netOk)
  \/ NextVersionOpen
  \/ NextVersionAddAll

SpecGen == InitSW /\ [][NextGen]_vars

----------------------------------------------------------------------------
\* Two page contexts of the same origin.  Each runs the save handler; the
\* handler reads localStorage at line 121 and writes it at line 123, and nothing
\* keeps the other context from using localStorage in between.

\* the prices typed in the two contexts
TabPriceInputs == {<<"3", ".", "9", "9">>, <<"-", "1">>}

\* the save handler of a context up to line 121: the guard of line 117 has
\* passed for the code it holds and the price typed, and the mapping is read
TabSaveRead(t, code, text) ==
  /\ tabs[t].pc = "idle"
  /\ ~(Falsy(code) \/ IsNaN(ParseFloat(text)))
  /\ ~ParseThrows(ItemOrDefault(storage))
  /\ tabs' = [tabs EXCEPT ![t] = [pc |-> "read", code |-> code, price |-> ParseFloat(text),
                                  data |-> JSONparse(ItemOrDefault(storage))]]
  /\ tabHist' = [tabHist EXCEPT
                   !.overlap = tabHist.overlap \/ \E u \in Tabs \ {t} : tabs[u].pc = "read"]
  /\ UNCHANGED <<pagePhase, listenersBound, swScheduled, storage, currentCode, formHidden,
                 scannedCode, priceInput, pricesList, running, pendingInits, subscribers,
                 notice, pageError, lastOp, ledger, scanIdle>>
  /\ UNCHANGED swVars

\* a mutant of TabSaveWrite: the price is set in a new object, not in the mapping
\* that was read
TabSaveWriteFreshObject(t) ==
  /\ tabs[t].pc = "read"
  /\ storage' = JSONstringify(SetProp(EmptyObject, tabs[t].code, tabs[t].price))
  /\ tabs' = [tabs EXCEPT ![t] = TabIdle]
  /\ tabHist' = [tabHist EXCEPT !.saved[tabs[t].code] = tabs[t].price]
  /\ UNCHANGED <<pagePhase, listenersBound, swScheduled, currentCode, formHidden,
                 scannedCode, priceInput, pricesList, running, pendingInits, subscribers,
                 notice, pageError, lastOp, ledger, scanIdle>>
  /\ UNCHANGED swVars

\* the save handler of a context from line 122: the price is set in the mapping
\* it has read and the whole mapping is written back
TabSaveWrite(t) ==
  /\ tabs[t].pc = "read"
  /\ storage' = JSONstringify(SetProp(tabs[t].data, tabs[t].code, tabs[t].price))
  /\ tabs' = [tabs EXCEPT ![t] = TabIdle]
  /\ tabHist' = [tabHist EXCEPT !.saved[tabs[t].code] = tabs[t].price]
  /\ UNCHANGED <<pagePhase, listenersBound, swScheduled, currentCode, formHidden,
                 scannedCode, priceInput, pricesList, running, pendingInits, subscribers,
                 notice, pageError, lastOp, ledger, scanIdle>>
  /\ UNCHANGED swVars

InitTabs ==
  /\ PageReset
  /\ storage \in {Absent, JsonText(<<[key |-> Code012, val |-> Num(100)]>>)}
  /\ ledger = [ok |-> TRUE, price |-> [c \in Codes |-> NoPrice], prev |-> NoPrice]
  /\ SWIdle
  /\ TabsIdle

NextTabs ==
  \/ \E t \in Tabs, code \in Codes, text \in TabPriceInputs : TabSaveRead(t, code, text)
  \/ \E t \in Tabs : TabSaveWrite(t)

SpecTabs == InitTabs /\ [][NextTabs]_vars

----------------------------------------------------------------------------
\* Claims about the price ledger and the scan flow (specification Spec)

\* C1: last-write-wins.  While every save so far has completed on an initially
\* valid ledger, the persisted mapping holds for each code the price of the most
\* recent completed save of that code, and for every other code the price it had
\* at the start (none, if it had none).
C1_LastWriteWins ==
  ledger.ok => \A c \in Codes : StoredPrice(storage, c) = ledger.price[c]

\* a save has just replaced an earlier, different price of the scanned code while
\* the other code holds a price too
C1_Witness ==
  /\ lastOp = "saved"
  /\ ledger.ok
  /\ ledger.prev.k = "num"
  /\ ledger.prev # ledger.price[scannedCode]
  /\ \A c \in Codes : ledger.price[c].k = "num"

\* the price texts of the model that parseFloat turns into NaN
NonNumericInputs == {Empty, <<"a", "b", "c">>}

\* C2: a save click with a non-numeric price input, or with no scanned code held,
\* writes nothing: the persisted entry, currentCode, the visibility of the form
\* and the displayed list stay as they are, and no error is raised.
C2_InvalidSaveNoWrite ==
  [][((Falsy(currentCode) \/ priceInput \in NonNumericInputs) /\ SavePriceClick)
       => /\ UNCHANGED <<storage, currentCode, formHidden, pricesList>>
          /\ pageError' = "none"]_vars

\* a save click was ignored although a code is held and the ledger is not empty:
\* the price text is not a number
C2_Witness ==
  /\ lastOp = "saveIgnored"
  /\ currentCode \in Codes
  /\ priceInput = <<"a", "b", "c">>
  /\ ~formHidden
  /\ pricesList # <<>>

\* C3: with a corrupt 'prices' entry loadPrices raises no error and leaves the
\* displayed list empty; with the entry absent the list is empty as well.
C3_CorruptLoadsAsEmpty ==
  (lastOp = "startup" /\ storage.kind \in {"garbage", "absent"})
    => (pageError = "none" /\ pricesList = <<>>)

\* C7: from the first detection of a non-empty code until the next click on the
\* scan trigger the handler is unsubscribed and the decoder is not running.
C7_StoppedUntilRescan ==
  scanIdle => (~running /\ subscribers = 0)

\* C8: when Quagga.init fails the alert is shown, the callback neither starts the
\* decoder nor begins another initialization, the ledger, currentCode, the
\* displayed list and the bound listeners are untouched and no error is raised;
\* every click on the scan trigger begins one more initialization.
C8_InitFailureIsNotFatal ==
  [][/\ InitCallback(TRUE)
          => /\ notice' # "none"
             /\ running' = running
             /\ pendingInits' = pendingInits - 1
             /\ pageError' = "none"
             /\ listenersBound'
             /\ UNCHANGED <<storage, currentCode, pricesList, subscribers>>
     /\ StartScanner => pendingInits' = pendingInits + 1]_vars

\* an initialization has failed with the decoder idle, a code held and prices listed
C8_Witness ==
  /\ lastOp = "initFailed"
  /\ notice # "none"
  /\ ~running
  /\ currentCode \in Codes
  /\ pricesList # <<>>

\* C9: a save click that passes the guard of line 117 and raises no error leaves
\* currentCode null, the form hidden and the displayed list equal to the rendering
\* of the persisted mapping, which holds the new price for the saved code;
\* currentCode then stays null until a code is detected, and a save click with
\* currentCode null writes nothing.
C9_SaveResetsState ==
  [][/\ (~Falsy(currentCode) /\ priceInput \notin NonNumericInputs /\ pageError' = "none"
           /\ SavePriceClick)
          => /\ currentCode' = Null
             /\ formHidden'
             /\ StoredPrice(storage', currentCode) = ParseFloat(priceInput)
             /\ Len(pricesList') = Len(storage'.members)
             /\ \A i \in 1..Len(pricesList') :
                  /\ pricesList'[i].code = storage'.members[i].key
                  /\ pricesList'[i].price = <<"$">> \o ToFixed2(storage'.members[i].val)
     /\ (currentCode = Null /\ lastOp' # "detected") => currentCode' = Null
     /\ (currentCode = Null /\ SavePriceClick) => storage' = storage]_vars

\* a save has completed: no code is held, the form is hidden, two prices are listed
C9_Witness ==
  /\ lastOp = "saved"
  /\ currentCode = Null
  /\ formHidden
  /\ Len(pricesList) = 2

----------------------------------------------------------------------------
\* Claims about the service worker (specification SpecSW)

\* C4: once the install phase has completed, every listed path is in the store
\* named CACHE_NAME, and a fetch event for a listed path is answered from a cache
\* without a live network fetch.
C4_InstalledAssetsServedFromCache ==
  /\ swState \in {"installed", "activating", "activated"}
       => /\ HasStore(caches, CACHE_NAME)
          /\ URLS_TO_CACHE \subseteq StoreUrls(caches, CACHE_NAME)
  /\ (swOp = "fetch" /\ response.url \in URLS_TO_CACHE)
       => (response.source = "cache" /\ ~netFetch)

\* a listed path that this install stored has been served from the current store
C4_Witness ==
  /\ swOp = "fetch"
  /\ atInstall = {}
  /\ response = [source |-> "cache", cache |-> CACHE_NAME, url |-> "/app.js"]
  /\ ~netFetch

\* C5: when the activate phase has completed, every store that was present at its
\* start under another name than CACHE_NAME is gone, and the store named
\* CACHE_NAME, if present at the start, is there with the same contents.
C5_ActivateKeepsOnlyCurrent ==
  swState = "activated"
    => \A i \in 1..Len(atActivate) :
         IF atActivate[i].name = CACHE_NAME
           THEN /\ HasStore(caches, CACHE_NAME)
                /\ StoreUrls(caches, CACHE_NAME) = atActivate[i].urls
           ELSE ~HasStore(caches, atActivate[i].name)

\* activation has completed from three stores, of which the current one is left
C5_Witness ==
  /\ swOp = "activated"
  /\ Len(atActivate) = 3
  /\ CacheNames(caches) = {CACHE_NAME}

\* C6: install is all-or-nothing.  While the install runs, and after it has
\* failed, the store named CACHE_NAME holds what it held when the install began;
\* a failed fetch of a listed path discards the worker, and a discarded worker
\* never leaves that state, so it is never activated.
C6_InstallAllOrNothing ==
  /\ [](swState \in {"installing", "redundant"}
          => StoreUrls(caches, CACHE_NAME) = atInstall)
  /\ [][/\ swOp' = "addAllFailed" => swState' = "redundant"
        /\ swState = "redundant" => swState' = "redundant"]_vars

\* the install failed after some of the listed paths had been fetched, and the
\* store it opened is empty
C6_Witness ==
  /\ swState = "redundant"
  /\ swOp = "addAllFailed"
  /\ Cardinality(addAllDone) >= 3
  /\ HasStore(caches, CACHE_NAME)
  /\ StoreUrls(caches, CACHE_NAME) = {}

\* C10: a fetch event whose request no store holds is answered with the result of
\* a live network fetch, and a fetch event, hit or miss, leaves CacheStorage as
\* it was.
C10_FetchChangesNoCache ==
  [][(swOp' = "fetch" /\ \E url \in Requests, netOk \in BOOLEAN : FetchEvent(url, netOk))
       => /\ caches' = caches
          /\ MatchingStores(caches, response'.url) = {}
               => (netFetch' /\ response'.source \in {"network", "networkError"})]_vars

\* a request that is not listed has been answered by the network
C10_Witness ==
  /\ swOp = "fetch"
  /\ response = [source |-> "network", cache |-> "none", url |-> "/api/prices"]
  /\ netFetch
  /\ CacheNames(caches) = {CACHE_NAME}

\* C11: lifecycle ordering.  A worker that is activating or activated has every
\* listed path in the store named CACHE_NAME, and when it handles a fetch event
\* its activation has completed: no deletion is outstanding and no store that
\* was stale when the activation began is left.
C11_LifecycleOrdering ==
  /\ swState \in {"activating", "activated"}
       => URLS_TO_CACHE \subseteq StoreUrls(caches, CACHE_NAME)
  /\ swOp = "fetch"
       => /\ swState = "activated"
          /\ toDelete = {}
          /\ \A i \in 1..Len(atActivate) :
               atActivate[i].name # CACHE_NAME => ~HasStore(caches, atActivate[i].name)

\* a fetch event is handled after an activation that had two stale stores to delete
C11_Witness ==
  /\ swOp = "fetch"
  /\ swState = "activated"
  /\ {atActivate[i].name : i \in 1..Len(atActivate)} = {StaleName, OtherName, CACHE_NAME}
  /\ response.source = "network"

----------------------------------------------------------------------------
\* Claims about successive generations (specification SpecGen)

\* C12, as claimed: at most one cache store exists in every reachable state, that
\* is, no step of the lifecycle leads from at most one store to more than one.
C12_AtMostOneStore ==
  [][Cardinality(CacheNames(caches)) <= 1 => Cardinality(CacheNames(caches')) <= 1]_vars

\* C12, amended: from the completion of the activate phase until the next
\* version's install opens its store, exactly one store is resident, the one
\* named CACHE_NAME.
C12_OneStoreOnceActivated ==
  (swState = "activated" /\ ~HasStore(caches, NextName))
    => CacheNames(caches) = {CACHE_NAME}

\* the activation has just completed from a stale and a current store, and the
\* current store alone is left
C12_Witness ==
  /\ swOp = "activated"
  /\ {atActivate[i].name : i \in 1..Len(atActivate)} = {StaleName, CACHE_NAME}
  /\ CacheNames(caches) = {CACHE_NAME}
  /\ atInstall = {}

\* the generation whose worker answered the last fetch event
ServingGeneration == IF swOp = "fetchByPrevious" THEN StaleName ELSE CACHE_NAME

\* the stores that belong to a generation of the worker
GenerationNames == {StaleName, CACHE_NAME, NextName}

\* C19, as claimed: a response served from cache comes from the store named by
\* the serving worker's own generation identifier, never from the store of
\* another generation.
C19_ServedFromOwnStore ==
  (swOp \in {"fetch", "fetchByPrevious"} /\ response.source = "cache")
    => response.cache \notin GenerationNames \ {ServingGeneration}

\* C19, amended: a response served from cache comes from the resident store
\* created first among those that hold the request, of whichever generation; for
\* the active version of this source that is its own store for every listed path.
C19_ServedFromFirstHolder ==
  (swOp \in {"fetch", "fetchByPrevious"} /\ response.source = "cache")
    => /\ \E i \in 1..Len(caches) :
            /\ caches[i].name = response.cache
            /\ response.url \in caches[i].urls
            /\ \A j \in 1..(i - 1) : response.url \notin caches[j].urls
       /\ (swOp = "fetch" /\ response.url \in URLS_TO_CACHE)
            => response.cache = CACHE_NAME

\* this version has served a listed path from its own store while the store of
\* the next version, holding the same path, is resident
C19_Witness ==
  /\ swOp = "fetch"
  /\ response = [source |-> "cache", cache |-> CACHE_NAME, url |-> "/styles.css"]
  /\ "/styles.css" \in StoreUrls(caches, NextName)

----------------------------------------------------------------------------
\* Further claims about the price ledger and the scan flow (specification Spec)

\* C13: every price in the persisted mapping is a finite, non-negative number.
C13_StoredPricesNonNegative ==
  \A i \in 1..Len(storage.members) :
    storage.members[i].val.k = "num" /\ storage.members[i].val.v >= 0

\* C14: once the scan trigger has been clicked and no code detected since, no
\* code is held, the form is hidden, and a save click writes nothing.
C14_RescanDiscardsPending ==
  /\ [](~scanIdle => (currentCode = Null /\ formHidden))
  /\ [][(~scanIdle /\ SavePriceClick) => storage' = storage]_vars

\* C15: after every completed loadPrices (at startup and after a completed save)
\* the displayed list has one item per key of the persisted mapping, in the order
\* of Object.keys, each with that key's price to two decimals, and no code twice.
C15_ListIsTheMapping ==
  (lastOp \in {"startup", "saved"} /\ pageError = "none")
    => LET data == JSONparse(ItemOrDefault(storage))
       IN /\ Len(pricesList) = Len(ObjectKeys(data))
          /\ \A i \in 1..Len(pricesList) :
               /\ pricesList[i].code = ObjectKeys(data)[i]
               /\ pricesList[i].price = <<"$">> \o ToFixed2(GetProp(data, ObjectKeys(data)[i]))
          /\ \A i, j \in 1..Len(pricesList) :
               pricesList[i].code = pricesList[j].code => i = j

\* a save of the code "7" has put it before the older key "012", and a second
\* save has replaced a price: the list shows both keys once, in key order
C15_Witness ==
  /\ lastOp = "saved"
  /\ ledger.prev.k = "num"
  /\ Len(pricesList) = 2
  /\ pricesList[1].code = Code7
  /\ pricesList[2].code = Code012

\* C16: a save click with a code held and the price 3.99, made while the 'prices'
\* entry is corrupt, raises no error, leaves the mapping {code: 3.99}, hides the
\* form and clears currentCode.
C16_SaveTreatsCorruptAsEmpty ==
  [][(storage.kind = "garbage" /\ currentCode \in Codes
        /\ priceInput = <<"3", ".", "9", "9">> /\ SavePriceClick)
       => /\ pageError' = "none"
          /\ storage' = JsonText(<<[key |-> currentCode, val |-> Num(399)]>>)
          /\ formHidden'
          /\ currentCode' = Null]_vars

\* C18: the form is visible exactly when a scanned code is held, and then shows
\* that code.
C18_FormVisibleIffCodeHeld ==
  /\ ~formHidden <=> currentCode # Null
  /\ ~formHidden => scannedCode = currentCode

\* C20: whatever the 'prices' entry holds, the DOMContentLoaded handler binds the
\* listeners and ends without an exception, so that it reaches the registration
\* of the worker (lines 134-140).
C20_StartupCompletes ==
  lastOp = "startup" => (listenersBound /\ pageError = "none")

----------------------------------------------------------------------------
\* Claims about two contexts sharing localStorage (specification SpecTabs)

\* the persisted mapping lacks a code for which a save has completed
LostUpdate ==
  \E c \in Codes : tabHist.saved[c] # NoPrice /\ StoredPrice(storage, c) = NoPrice

\* C17: an update is lost only when the reads and writes of two saves have
\* interleaved; as long as no save has read the mapping between the read and the
\* write of another (as with a single context), the persisted mapping holds the
\* last saved price of every saved code.
C17_LostUpdateOnlyByInterleaving ==
  /\ LostUpdate => tabHist.overlap
  /\ ~tabHist.overlap
       => \A c \in Codes :
            tabHist.saved[c] # NoPrice => StoredPrice(storage, c) = tabHist.saved[c]

\* the lost update: on an empty ledger the two contexts have each completed a
\* save, for distinct codes, and the persisted mapping holds one of the codes only
C17_Witness ==
  /\ \A t \in Tabs : tabs[t].pc = "idle"
  /\ \A c \in Codes : tabHist.saved[c] # NoPrice
  /\ Len(storage.members) = 1
  /\ LostUpdate

====
